---- MODULE Spec2Model ----
(***************************************************************************)
(* Model of the trade-simulation and risk-allocation core of cquant:       *)
(*   - VectorBacktester.run            (src/backtest/backtester.py)        *)
(*   - choose_leverage                 (src/core/leverage.py)              *)
(*   - DynamicUCBSelector              (src/core/pair_selector.py)         *)
(* Python floats are modelled as exact rationals <<n, d>> with d > 0,      *)
(* extended with the IEEE specials <<1,0>> (+inf), <<-1,0>> (-inf) and     *)
(* <<0,0>> (nan), which numpy division by zero produces.                   *)
(***************************************************************************)
EXTENDS Integers, Sequences, FiniteSets, TLC

(* ------------------------------------------------------------------ *)
(* Bounds                                                              *)
(* ------------------------------------------------------------------ *)
MaxBars == 3

(* ------------------------------------------------------------------ *)
(* Float arithmetic as extended rationals                              *)
(* ------------------------------------------------------------------ *)
Abs(x) == IF x < 0 THEN -x ELSE x

Sgn(x) == IF x > 0 THEN 1 ELSE IF x < 0 THEN -1 ELSE 0

RECURSIVE Gcd(_, _)
Gcd(a, b) == IF b = 0 THEN a ELSE Gcd(b, a % b)

FNorm(x) ==
    IF x[2] = 0 THEN <<Sgn(x[1]), 0>>
    ELSE LET g == Gcd(Abs(x[1]), Abs(x[2]))
             s == Sgn(x[2])
         IN  <<(s * x[1]) \div g, (s * x[2]) \div g>>

Rat(n, d) == FNorm(<<n, d>>)

Zero == <<0, 1>>
One == <<1, 1>>
PosInf == <<1, 0>>
NegInf == <<-1, 0>>
NaN == <<0, 0>>

IsNaN(x) == x = NaN
IsFinite(x) == x[2] # 0

FNeg(x) == <<-x[1], x[2]>>

FAdd(x, y) ==
    IF x[2] = 0 /\ y[2] = 0
    THEN (IF x = y THEN x ELSE NaN)
    ELSE FNorm(<<x[1] * y[2] + y[1] * x[2], x[2] * y[2]>>)

FSub(x, y) == FAdd(x, FNeg(y))

FMul(x, y) == FNorm(<<x[1] * y[1], x[2] * y[2]>>)

\* x / y; a zero divisor is the positive zero 0.0, so x / 0.0 is +-inf or nan
FDiv(x, y) ==
    LET r == IF y[1] < 0 THEN <<-y[2], -y[1]>> ELSE <<y[2], y[1]>>
    IN  FNorm(<<x[1] * r[1], x[2] * r[2]>>)

FLeq(x, y) ==
    /\ ~IsNaN(x)
    /\ ~IsNaN(y)
    /\ IF x[2] = 0 /\ y[2] = 0 THEN x[1] <= y[1]
       ELSE x[1] * y[2] <= y[1] * x[2]

FGeq(x, y) == FLeq(y, x)

FLt(x, y) == FLeq(x, y) /\ x # y

FGt(x, y) == FLt(y, x)

(* ------------------------------------------------------------------ *)
(* VectorBacktester                                                    *)
(* ------------------------------------------------------------------ *)
sl_atr == Rat(12, 10)
tp_atr == Rat(24, 10)
initial_balance == One

\* closes and ATR values a bar can carry
Closes == {Rat(976, 10), Rat(100, 1), Rat(1048, 10)}
Atrs == {Zero, Rat(2, 1)}
BarValues == [c : Closes, atr : Atrs]

\* what policy.decide can return
Sides == {"long", "short", "flat"}
Sizes == {Zero, Rat(2, 100)}
Decisions == [side : Sides, size : Sizes]

NoPosition ==
    [side |-> "none", entry_price |-> Zero, qty |-> Zero,
     sl |-> Zero, tp |-> Zero, entry_idx |-> -1]

NoDecision == [side |-> "unbound", size |-> Zero]

VARIABLES
    bars,        \* self.df: sequence of [c, atr]; df.iloc[j] is bars[j+1]
    pc,          \* position in run(): "loop","assign","final","ret","done","fault"
    i,           \* number of loop iterations started; Python's i is i-1
    balance,
    position,
    trade_log,
    decision,    \* local of run(), NoDecision while unbound
    qty, sl, tp, \* locals of run(), meaningful once "qty" \in bound
    bound,       \* names of the locals that have been assigned
    opened,      \* number of times a Position was created
    decided,     \* number of calls of policy.decide
    returned     \* the pair run() returns

bt_vars == <<bars, pc, i, balance, position, trade_log, decision,
             qty, sl, tp, bound, opened, decided, returned>>

\* a second call of run() on the same frame with the same policy
VARIABLES
    run_no,      \* 1 during the first call of run(), 2 during the second
    decs,        \* what policy.decide returned in this call, in call order
    first        \* the outcome of the first call and the decisions it got

rerun_vars == <<run_no, decs, first>>

\* choose_leverage
VARIABLES
    lev_args,    \* the arguments of one call of choose_leverage
    lev_ret      \* what the call did: [status, lev, qty_usd]

lev_vars == <<lev_args, lev_ret>>

\* DynamicUCBSelector
VARIABLES
    k,           \* self.k
    static,      \* self.static
    N_total,     \* self.N_total
    stats,       \* self.stats: the keys present are DOMAIN stats
    chosen       \* what the last call returned: a selection, or nothing

ucb_vars == <<k, static, N_total, stats, chosen>>

\* backtest/metrics.py
VARIABLES
    trades,      \* the trade-log frame handed to the metrics: [columns, rows]
    metric       \* what the last metrics call did: [op, status, value]

met_vars == <<trades, metric>>

\* live/risk.py
VARIABLES
    risk_log,    \* the calls of get_risk_frac so far: [balance, status, frac]
    sized        \* what the last call of compute_position_size did

risk_vars == <<risk_log, sized>>

\* core/scheduler.py and the main loop of live/trader.py
VARIABLES
    sched,       \* the BackgroundScheduler: "none", "started" or "shutdown"
    job_added,   \* whether the job "strategy_tick" is in the job store
    instances,   \* the executor's count of running instances of the job
    ticks,       \* the invocations of strategy_tick in progress, each at a phase
    fired,       \* number of times the interval trigger fired
    skipped      \* number of firings that started no tick

sched_vars == <<sched, job_added, instances, ticks, fired, skipped>>

\* the symbol loop of strategy_tick (live/trader.py lines 79-125)
VARIABLES
    tick_pc,        \* "idle", "loop", "order", "except" or "done"
    tick_balance,   \* balance, fetched at line 64
    pairs,          \* the symbols of `for sym in pairs` not yet handled
    tick_decision,  \* decision of the current symbol
    orders          \* the requests passed to client.create_order, in order

live_vars == <<tick_pc, tick_balance, pairs, tick_decision, orders>>

vars == <<bt_vars, rerun_vars, lev_vars, ucb_vars, met_vars, risk_vars, sched_vars,
          live_vars>>

not_bt_vars == <<lev_vars, ucb_vars, met_vars, risk_vars, sched_vars, live_vars>>
not_lev_vars == <<bt_vars, rerun_vars, ucb_vars, met_vars, risk_vars, sched_vars, live_vars>>
not_ucb_vars == <<bt_vars, rerun_vars, lev_vars, met_vars, risk_vars, sched_vars, live_vars>>
not_met_vars == <<bt_vars, rerun_vars, lev_vars, ucb_vars, risk_vars, sched_vars, live_vars>>
not_risk_vars == <<bt_vars, rerun_vars, lev_vars, ucb_vars, met_vars, sched_vars, live_vars>>
not_live_vars == <<bt_vars, rerun_vars, lev_vars, ucb_vars, met_vars, risk_vars,
                  sched_vars>>
not_sched_vars == <<bt_vars, rerun_vars, lev_vars, ucb_vars, met_vars, risk_vars, live_vars>>

NoReturn == [trades |-> <<>>, final_balance |-> Zero, ok |-> FALSE]

\* df.iloc[j]
Row(j) == bars[j + 1]

Sign(side) == IF side = "long" THEN One ELSE FNeg(One)

\* mutant: the realized pnl ignores the side of the position
Pnl_Unsigned(pos, exit_price) ==
    FMul(FSub(exit_price, pos.entry_price), pos.qty)

\* lines 87 and 139-143
Pnl(pos, exit_price) ==
    FMul(FMul(FSub(exit_price, pos.entry_price), pos.qty), Sign(pos.side))

\* mutant: the realized pnl is not booked
BalanceAfter_NotBooked(bal, pnl) == bal

\* lines 88 and 144: balance += pnl
BalanceAfter(bal, pnl) == FAdd(bal, pnl)

\* mutant: the record keeps the balance before the close
TradeRecord_BalanceBefore(pos, exit_idx, exit_price, pnl, bal) ==
    [entry_time |-> pos.entry_idx, exit_time |-> exit_idx, side |-> pos.side,
     entry_price |-> pos.entry_price, exit_price |-> exit_price,
     qty |-> pos.qty, pnl |-> pnl, balance_after |-> FSub(bal, pnl)]

\* lines 89-98 and 145-154
TradeRecord(pos, exit_idx, exit_price, pnl, bal) ==
    [entry_time |-> pos.entry_idx, exit_time |-> exit_idx, side |-> pos.side,
     entry_price |-> pos.entry_price, exit_price |-> exit_price,
     qty |-> pos.qty, pnl |-> pnl, balance_after |-> bal]

\* lines 73-83: the stop/take test on the next close
StopTakeExit(pos, price_next) ==
    IF pos.side = "long"
    THEN IF FLeq(price_next, pos.sl) THEN [hit |-> TRUE, price |-> pos.sl]
         ELSE IF FGeq(price_next, pos.tp) THEN [hit |-> TRUE, price |-> pos.tp]
         ELSE [hit |-> FALSE, price |-> Zero]
    ELSE IF FGeq(price_next, pos.sl) THEN [hit |-> TRUE, price |-> pos.sl]
         ELSE IF FLeq(price_next, pos.tp) THEN [hit |-> TRUE, price |-> pos.tp]
         ELSE [hit |-> FALSE, price |-> Zero]

\* lines 126-133: the dict assigned to position
MakePosition(dec, row, q, s, t, idx) ==
    [side |-> dec.side, entry_price |-> row.c, qty |-> q,
     sl |-> s, tp |-> t, entry_idx |-> idx]

\* lines 111-124: stop, take and quantity of an entry decision
StopDist(row) == FMul(sl_atr, row.atr)
TakeDist(row) == FMul(tp_atr, row.atr)
EntrySl(dec, row) ==
    IF dec.side = "long" THEN FSub(row.c, StopDist(row)) ELSE FAdd(row.c, StopDist(row))
EntryTp(dec, row) ==
    IF dec.side = "long" THEN FAdd(row.c, TakeDist(row)) ELSE FSub(row.c, TakeDist(row))
EntryQty(bal, dec, row) == FDiv(FMul(bal, dec.size), StopDist(row))

\* mutant: the entry branch opens the position inside the loop as well
PositionAfterDecision_Enter(pos, dec, row, q, s, t, idx) ==
    IF dec.side # "flat" THEN MakePosition(dec, row, q, s, t, idx) ELSE pos

\* The entry branch of the loop body (lines 108-124) ends without assigning
\* position: the assignment of line 126 is indented at method level.
PositionAfterDecision(pos, dec, row, q, s, t, idx) == pos

\* nothing recorded of a first call
NoFirst == [pc |-> "none", returned |-> NoReturn, decs |-> <<>>]

BTInit ==
    /\ bars \in UNION {[1..n -> BarValues] : n \in 0..MaxBars}
    /\ pc = "loop"
    /\ i = 0
    /\ balance = initial_balance
    /\ position = NoPosition
    /\ trade_log = <<>>
    /\ decision = NoDecision
    /\ qty = Zero /\ sl = Zero /\ tp = Zero
    /\ bound = {}
    /\ opened = 0
    /\ decided = 0
    /\ returned = NoReturn
    /\ run_no = 1
    /\ decs = <<>>
    /\ first = NoFirst

\* line 106: in a second call the same policy returns, at each call of
\* decide, what it returned at that call in the first
SamePolicy(dec) ==
    (run_no = 2 /\ decided < Len(first.decs)) => dec = first.decs[decided + 1]

\* One iteration of `for i in range(len(self.df) - 1)` (lines 65-124)
LoopStep ==
    /\ pc = "loop"
    /\ i < Len(bars) - 1
    /\ LET row == Row(i)
           price_next == Row(i + 1).c
       IN  IF position # NoPosition
           THEN LET ex == StopTakeExit(position, price_next)
                    pnl == Pnl(position, ex.price)
                    nb == BalanceAfter(balance, pnl)
                IN  /\ IF ex.hit
                       THEN /\ balance' = nb
                            /\ trade_log' = Append(trade_log,
                                   TradeRecord(position, i + 1, ex.price, pnl, nb))
                            /\ position' = NoPosition
                       ELSE UNCHANGED <<balance, trade_log, position>>
                    /\ bound' = bound \cup {"row"}
                    /\ UNCHANGED <<decision, qty, sl, tp, opened, decided, decs>>
           ELSE \E dec \in Decisions :
                    LET entry == dec.side # "flat"
                        q == IF entry THEN EntryQty(balance, dec, row) ELSE qty
                        s == IF entry THEN EntrySl(dec, row) ELSE sl
                        t == IF entry THEN EntryTp(dec, row) ELSE tp
                        np == PositionAfterDecision(position, dec, row, q, s, t, i)
                    IN  /\ SamePolicy(dec)
                        /\ decision' = dec
                        /\ decided' = decided + 1
                        /\ decs' = Append(decs, dec)
                        /\ qty' = q /\ sl' = s /\ tp' = t
                        /\ bound' = bound \cup {"row", "decision"}
                                          \cup (IF entry THEN {"qty"} ELSE {})
                        /\ position' = np
                        /\ opened' = IF np # position THEN opened + 1 ELSE opened
                        /\ UNCHANGED <<balance, trade_log>>
    /\ i' = i + 1
    /\ UNCHANGED <<bars, pc, returned, run_no, first>>
    /\ UNCHANGED not_bt_vars

\* range(len(self.df) - 1) is exhausted
LoopExit ==
    /\ pc = "loop"
    /\ ~(i < Len(bars) - 1)
    /\ pc' = "assign"
    /\ UNCHANGED <<bars, i, balance, position, trade_log, decision,
                   qty, sl, tp, bound, opened, decided, returned>>
    /\ UNCHANGED rerun_vars
    /\ UNCHANGED not_bt_vars

\* lines 126-133, executed once after the loop; reading a local that no
\* iteration assigned raises UnboundLocalError
AssignPosition ==
    /\ pc = "assign"
    /\ IF {"decision", "row", "qty"} \subseteq bound
       THEN /\ position' = MakePosition(decision, Row(i - 1), qty, sl, tp, i - 1)
            /\ opened' = opened + 1
            /\ pc' = "final"
       ELSE /\ pc' = "fault"
            /\ UNCHANGED <<position, opened>>
    /\ UNCHANGED <<bars, i, balance, trade_log, decision, qty, sl, tp,
                   bound, decided, returned>>
    /\ UNCHANGED rerun_vars
    /\ UNCHANGED not_bt_vars

\* mutant: the final close applies the stop/take test
FinalExitPrice_StopTake ==
    LET ex == StopTakeExit(position, Row(Len(bars) - 1).c)
    IN  IF ex.hit THEN ex.price ELSE Row(Len(bars) - 1).c

\* lines 135-154: close any open position at the final bar
FinalExitPrice == Row(Len(bars) - 1).c

FinalClose ==
    /\ pc = "final"
    /\ IF position # NoPosition
       THEN LET exit_price == FinalExitPrice
                pnl == Pnl(position, exit_price)
                nb == BalanceAfter(balance, pnl)
            IN  /\ balance' = nb
                /\ trade_log' = Append(trade_log,
                       TradeRecord(position, Len(bars) - 1, exit_price, pnl, nb))
       ELSE UNCHANGED <<balance, trade_log>>
    /\ pc' = "ret"
    /\ UNCHANGED <<bars, i, position, decision, qty, sl, tp, bound,
                   opened, decided, returned>>
    /\ UNCHANGED rerun_vars
    /\ UNCHANGED not_bt_vars

\* lines 156-157
Return ==
    /\ pc = "ret"
    /\ returned' = [trades |-> trade_log, final_balance |-> balance, ok |-> TRUE]
    /\ pc' = "done"
    /\ UNCHANGED <<bars, i, balance, position, trade_log, decision,
                   qty, sl, tp, bound, opened, decided>>
    /\ UNCHANGED rerun_vars
    /\ UNCHANGED not_bt_vars

\* run() is called again on the same object: lines 61-63 start it from
\* self.initial_balance with no position, an empty log and no local bound;
\* run() never writes to self
Rerun ==
    /\ pc \in {"done", "fault"}
    /\ run_no = 1
    /\ first' = [pc |-> pc, returned |-> returned, decs |-> decs]
    /\ run_no' = 2
    /\ decs' = <<>>
    /\ pc' = "loop"
    /\ i' = 0
    /\ balance' = initial_balance
    /\ position' = NoPosition
    /\ trade_log' = <<>>
    /\ decision' = NoDecision
    /\ qty' = Zero /\ sl' = Zero /\ tp' = Zero
    /\ bound' = {}
    /\ opened' = 0
    /\ decided' = 0
    /\ returned' = NoReturn
    /\ UNCHANGED bars
    /\ UNCHANGED not_bt_vars


(* ------------------------------------------------------------------ *)
(* choose_leverage                                                     *)
(* ------------------------------------------------------------------ *)
Min(a, b) == IF a <= b THEN a ELSE b
Max(a, b) == IF a >= b THEN a ELSE b

\* TIERS, lines 16-20
TIERS ==
    << [mode |-> "cross_margin", min_cap |-> Zero, max_cap |-> Rat(200, 1),
        max_leverage |-> 5],
       [mode |-> "isolated", min_cap |-> Rat(200, 1), max_cap |-> Rat(2000, 1),
        max_leverage |-> 25],
       [mode |-> "isolated", min_cap |-> Rat(2000, 1), max_cap |-> PosInf,
        max_leverage |-> 10] >>

\* 1 / 1e-9 (line 47)
EpsInv == 1000000000
Eps == <<1, EpsInv>>

\* integers of the model saturate at 2 / 1e-9; a float64 holds the larger
\* values, which are only ever compared with a tier's max_leverage afterwards
IntMax == 2 * EpsInv

SatMul(a, b) ==
    IF a = 0 \/ b = 0 THEN 0
    ELSE IF Abs(a) > IntMax \div Abs(b) THEN Sgn(a) * Sgn(b) * IntMax
    ELSE a * b

\* x / y for finite x and finite y > 0, saturating
FDivSat(x, y) == FNorm(<<SatMul(x[1], y[2]), SatMul(x[2], y[1])>>)

\* Python max(a, b) of finite floats: b only when b > a
PyMax(a, b) == IF SatMul(b[1], a[2]) > SatMul(a[1], b[2]) THEN b ELSE a

\* Python round() of a finite float: to nearest, ties to even
Round(x) ==
    LET q == x[1] \div x[2]
        r == x[1] % x[2]
    IN  IF 2 * r < x[2] THEN q
        ELSE IF 2 * r > x[2] THEN q + 1
        ELSE IF q % 2 = 0 THEN q ELSE q + 1

\* line 50: the indices of the tiers containing balance, in order
MatchingTiers(bal) ==
    {t \in 1..Len(TIERS) :
        FLeq(TIERS[t].min_cap, bal) /\ FLt(bal, TIERS[t].max_cap)}

\* mutant: the epsilon floor on the divisor is forgotten
Divisor_NoFloor(target_risk) == target_risk

\* line 47: max(1e-9, target_risk)
Divisor(target_risk) == PyMax(Eps, target_risk)

\* line 47
LevNeeded(target_risk, stop_usd, min_notional) ==
    FDivSat(FMul(min_notional, stop_usd), Divisor(target_risk))

\* mutant: the lower clamp is forgotten
ClampToTier_NoFloor(lev_needed, tier) == Min(Round(lev_needed), tier.max_leverage)

\* line 53
ClampToTier(lev_needed, tier) == Max(1, Min(Round(lev_needed), tier.max_leverage))

\* lines 56-57
ClampToExchange(lev, exchange_bracket) ==
    IF exchange_bracket.present THEN Min(lev, exchange_bracket.maxLeverage) ELSE lev

\* mutant: the leverage is not applied to the notional
Notional_Unlevered(target_risk, lev, stop_usd) ==
    IF FGt(stop_usd, Zero) THEN FDiv(target_risk, stop_usd) ELSE Zero

\* line 60
Notional(target_risk, lev, stop_usd) ==
    IF FGt(stop_usd, Zero) THEN FDiv(FMul(target_risk, Rat(lev, 1)), stop_usd)
    ELSE Zero

\* lines 43-62
choose_leverage(bal, risk_frac, stop_usd, min_notional, exchange_bracket) ==
    LET target_risk == FMul(bal, risk_frac)
        lev_needed == LevNeeded(target_risk, stop_usd, min_notional)
        match == MatchingTiers(bal)
    IN  IF Divisor(target_risk) = Zero
        THEN [status |-> "ZeroDivisionError", lev |-> 0, qty_usd |-> Zero]
        ELSE IF match = {}
        THEN [status |-> "StopIteration", lev |-> 0, qty_usd |-> Zero]
        ELSE LET tier == TIERS[CHOOSE t \in match : \A u \in match : t <= u]
                 lev == ClampToExchange(ClampToTier(lev_needed, tier),
                                        exchange_bracket)
             IN  [status |-> "ok", lev |-> lev,
                  qty_usd |-> Notional(target_risk, lev, stop_usd)]

\* argument values of the modelled calls
Balances ==
    {Rat(-1, 1), Zero, Rat(100, 1), Rat(19999, 100), Rat(200, 1), Rat(1000, 1),
     Rat(2000, 1), Rat(10000, 1)}
RiskFracs == {Zero, Rat(1, 100), Rat(15, 1000), Rat(2, 100)}
StopUsds == {Rat(-1, 1), Zero, Rat(1, 2), Rat(24, 10), Rat(100, 1)}
MinNotionals == {Zero, Rat(5, 1), Rat(50, 1)}
Brackets ==
    {[present |-> FALSE, maxLeverage |-> 0]}
        \cup [present : {TRUE}, maxLeverage : {1, 3, 20, 125}]

LevArgs ==
    [balance : Balances, risk_frac : RiskFracs, stop_usd : StopUsds,
     min_notional : MinNotionals, exchange_bracket : Brackets]

NoLevRet == [status |-> "none", lev |-> 0, qty_usd |-> Zero]

LevIdle ==
    /\ lev_args = [balance |-> Zero, risk_frac |-> Zero, stop_usd |-> Zero,
                   min_notional |-> Zero,
                   exchange_bracket |-> [present |-> FALSE, maxLeverage |-> 0]]
    /\ lev_ret = NoLevRet

LevInit ==
    /\ lev_args \in LevArgs
    /\ lev_ret = NoLevRet

CallChooseLeverage ==
    /\ lev_ret.status = "none"
    /\ lev_ret' = choose_leverage(lev_args.balance, lev_args.risk_frac,
                                  lev_args.stop_usd, lev_args.min_notional,
                                  lev_args.exchange_bracket)
    /\ UNCHANGED lev_args
    /\ UNCHANGED not_lev_vars

(* ------------------------------------------------------------------ *)
(* DynamicUCBSelector                                                  *)
(* ------------------------------------------------------------------ *)
MaxSamples == 3

Symbols == {"A", "B", "C"}
\* the values of k, of static_pairs and of a reward (a Sharpe ratio, which
\* backtest/metrics.py reports as nan for fewer than two returns)
Ks == {1, 2}
Statics == {<<"B", "A">>}
Rewards == {Rat(-1, 1), Rat(2, 1), NaN}

\* what _fetch_top_universe can return: distinct symbols in volume order
Universes ==
    {u \in UNION {[1..n -> Symbols] : n \in 0..Cardinality(Symbols)} :
        \A a, b \in 1..Len(u) : a # b => u[a] # u[b]}

\* line 13: the defaultdict's factory
NewArm == [N |-> 0, reward |-> Zero]

\* mutant: reading the entry resets it
Touch_Reset(st, p) ==
    [q \in DOMAIN st \cup {p} |-> IF q = p THEN NewArm ELSE st[q]]

\* self.stats[p]: the entry, created when absent
Touch(st, p) == IF p \in DOMAIN st THEN st ELSE st @@ (p :> NewArm)

RECURSIVE TouchAll(_, _)
TouchAll(st, u) ==
    IF u = <<>> THEN st ELSE TouchAll(Touch(st, Head(u)), Tail(u))

\* 1000 * ln(n) for n = 1..8, rounded
LnMilliTable == <<0, 693, 1099, 1386, 1609, 1792, 1946, 2079>>

\* the integer square root of n, searched between lo and hi
RECURSIVE IsqrtIn(_, _, _)
IsqrtIn(n, lo, hi) ==
    IF lo >= hi THEN lo
    ELSE LET mid == (lo + hi + 1) \div 2
         IN  IF mid * mid <= n THEN IsqrtIn(n, mid, hi) ELSE IsqrtIn(n, lo, mid - 1)

Isqrt(n) == IsqrtIn(n, 0, 1024)

\* line 43: 100 * sqrt(2 * ln(N_total) / N), rounded down
BonusCenti(nt, n) == Isqrt((20 * LnMilliTable[nt]) \div n)

\* line 40
UnsampledScore == PosInf

\* lines 38-44
Score(st, nt, p) ==
    IF st[p].N = 0 THEN UnsampledScore
    ELSE FAdd(FDiv(st[p].reward, Rat(st[p].N, 1)), Rat(BonusCenti(nt, st[p].N), 100))

\* lines 36-44: the scores dict, as the <<symbol, score>> pairs in
\* insertion order
RECURSIVE Scores(_, _, _)
Scores(u, st, nt) ==
    IF u = <<>> THEN <<>>
    ELSE <<(<<Head(u), Score(st, nt, Head(u))>>)>> \o Scores(Tail(u), st, nt)

\* line 47: sorted(scores, key=scores.get, reverse=True), as CPython's
\* list.sort does it for a short list: the list is reversed, the leading run
\* is found (and reversed when strictly descending), the rest is inserted by
\* binary search, and the result is reversed again. Every comparison is the
\* float <, which is false when either key is nan.
KeyLt(x, y) == FLt(x[2], y[2])

Reverse(seq) == [j \in 1..Len(seq) |-> seq[Len(seq) + 1 - j]]

RECURSIVE RunEnd(_, _, _)
RunEnd(a, j, desc) ==
    IF j > Len(a) THEN j - 1
    ELSE IF desc = KeyLt(a[j], a[j - 1]) THEN RunEnd(a, j + 1, desc)
    ELSE j - 1

RECURSIVE InsertionPoint(_, _, _, _)
InsertionPoint(a, pivot, l, r) ==
    IF l >= r THEN l
    ELSE LET m == l + ((r - l) \div 2)
         IN  IF KeyLt(pivot, a[m + 1]) THEN InsertionPoint(a, pivot, l, m)
             ELSE InsertionPoint(a, pivot, m + 1, r)

RECURSIVE BinarySort(_, _)
BinarySort(a, start) ==
    IF start >= Len(a) THEN a
    ELSE LET pivot == a[start + 1]
             l == InsertionPoint(a, pivot, 0, start)
         IN  BinarySort(SubSeq(a, 1, l) \o <<pivot>> \o SubSeq(a, l + 1, start)
                            \o SubSeq(a, start + 2, Len(a)),
                        start + 1)

ListSort(a) ==
    IF Len(a) <= 1 THEN a
    ELSE LET desc == KeyLt(a[2], a[1])
             n == RunEnd(a, 3, desc)
             run == IF desc THEN Reverse(SubSeq(a, 1, n)) ELSE SubSeq(a, 1, n)
         IN  BinarySort(run \o SubSeq(a, n + 1, Len(a)), n)

SortedDesc(sc) ==
    LET sorted == Reverse(ListSort(Reverse(sc)))
    IN  [j \in 1..Len(sorted) |-> sorted[j][1]]

\* line 47: [:self.k]
TopK(u, st, nt, kk) == SubSeq(SortedDesc(Scores(u, st, nt)), 1, Min(kk, Len(u)))

NoChoice == [status |-> "none", universe |-> <<>>, topk |-> <<>>, result |-> <<>>]

UCBIdle ==
    /\ k = 0
    /\ static = <<>>
    /\ N_total = 0
    /\ stats = <<>>
    /\ chosen = NoChoice

\* __init__, lines 8-13
UCBInit ==
    /\ k \in Ks
    /\ static \in Statics
    /\ N_total = 0
    /\ stats = <<>>
    /\ chosen = NoChoice

\* mutant: the reward replaces the cumulative reward
Rewarded_Overwrite(st, pair, sharpe) ==
    [Touch(st, pair) EXCEPT ![pair] = [N |-> @.N + 1, reward |-> sharpe]]

\* mutant: the arm's sample is not counted
Rewarded_NoCount(st, pair, sharpe) ==
    [Touch(st, pair) EXCEPT ![pair] = [N |-> @.N, reward |-> FAdd(@.reward, sharpe)]]

\* lines 16-17: st = self.stats[pair]; st['N'] += 1; st['reward'] += sharpe
Rewarded(st, pair, sharpe) ==
    [Touch(st, pair) EXCEPT ![pair] =
        [N |-> @.N + 1, reward |-> FAdd(@.reward, sharpe)]]

\* update_reward, lines 15-18
UpdateReward ==
    /\ N_total < MaxSamples
    /\ \E pair \in Symbols, sharpe \in Rewards :
          /\ stats' = Rewarded(stats, pair, sharpe)
          /\ N_total' = N_total + 1
    /\ chosen' = NoChoice
    /\ UNCHANGED <<k, static>>
    /\ UNCHANGED not_ucb_vars

\* choose, lines 31-52; random.sample raises ValueError when the universe
\* holds fewer than k symbols
Choose ==
    /\ \E universe \in Universes :
          LET st == TouchAll(stats, universe)
              topk == TopK(universe, st, N_total, k)
          IN  /\ stats' = st
              /\ IF topk # <<>>
                 THEN chosen' = [status |-> "ok", universe |-> universe,
                                 topk |-> topk, result |-> static \o topk]
                 ELSE chosen' = [status |-> "ValueError", universe |-> universe,
                                 topk |-> <<>>, result |-> <<>>]
    /\ UNCHANGED <<k, static, N_total>>
    /\ UNCHANGED not_ucb_vars

(* ------------------------------------------------------------------ *)
(* PerformanceMetrics (backtest/metrics.py)                            *)
(* ------------------------------------------------------------------ *)
MaxTrades == 2

\* the keys of a trade record, which pd.DataFrame turns into columns
TradeColumns ==
    {"entry_time", "exit_time", "side", "entry_price", "exit_price",
     "qty", "pnl", "balance_after"}

\* backtester.py line 156, pd.DataFrame(trade_log): the columns come from the
\* records, so the frame of an empty list has none
DataFrame(log) ==
    [columns |-> IF log = <<>> THEN {} ELSE TradeColumns, rows |-> log]

\* an empty frame that kept its columns (a filtered or pre-declared frame)
EmptyFrame == [columns |-> TradeColumns, rows |-> <<>>]

\* trades['balance_after'].values
BalancesOf(tr) == [j \in 1..Len(tr.rows) |-> tr.rows[j].balance_after]

\* a call's outcome: a value, or the KeyError of a missing column
Returned(v) == [status |-> "ok", value |-> v]
KeyError == [status |-> "KeyError", value |-> NaN]

\* lines 13-14: the per-trade returns
TradeReturns(tr, ib) ==
    LET ba == BalancesOf(tr)
        bb == <<ib>> \o SubSeq(ba, 1, Len(ba) - 1)
    IN  [j \in 1..Len(ba) |-> FDiv(FSub(ba[j], bb[j]), bb[j])]

\* lines 6-15
compute_trade_returns(tr, ib) ==
    IF "balance_after" \in tr.columns
    THEN [status |-> "ok", value |-> TradeReturns(tr, ib)]
    ELSE [status |-> "KeyError", value |-> <<>>]

\* pandas reductions skip nan entries
DropNaN(xs) == SelectSeq(xs, LAMBDA x : ~IsNaN(x))

RECURSIVE FSum(_)
FSum(xs) == IF xs = <<>> THEN Zero ELSE FAdd(Head(xs), FSum(Tail(xs)))

\* Series.mean()
SeriesMean(xs) ==
    LET ys == DropNaN(xs)
    IN  IF ys = <<>> THEN NaN ELSE FDiv(FSum(ys), Rat(Len(ys), 1))

\* Series.std() squared: the sample variance (ddof = 1), nan for fewer than
\* two entries
SeriesVar(xs) ==
    LET ys == DropNaN(xs)
        m == SeriesMean(xs)
        sq == [j \in 1..Len(ys) |-> FMul(FSub(ys[j], m), FSub(ys[j], m))]
    IN  IF Len(ys) < 2 THEN NaN ELSE FDiv(FSum(sq), Rat(Len(ys) - 1, 1))

\* lines 17-28. The ratio mean/std*sqrt(n) is irrational in general; it is
\* carried as sign(sr) * sr^2, which is exact and keeps the order.
sharpe_ratio(returns, annualize) ==
    LET v == SeriesVar(returns)
        m == SeriesMean(returns)
        n == IF annualize THEN Len(returns) ELSE 1
    IN  IF v = Zero \/ Len(returns) < 2 THEN NaN
        ELSE IF IsNaN(v) \/ IsNaN(m) THEN NaN
        ELSE FMul(Rat(Sgn(m[1]) * n, 1), FDiv(FMul(m, m), v))

\* np.maximum: nan if either operand is nan
NpMaximum(a, b) ==
    IF IsNaN(a) \/ IsNaN(b) THEN NaN ELSE IF FGeq(a, b) THEN a ELSE b

\* np.maximum.accumulate
RECURSIVE Accumulate(_)
Accumulate(xs) ==
    IF Len(xs) <= 1 THEN xs
    ELSE LET init == Accumulate(SubSeq(xs, 1, Len(xs) - 1))
         IN  Append(init, NpMaximum(init[Len(init)], xs[Len(xs)]))

\* ndarray.min(): nan if any entry is nan
RECURSIVE NpMin(_)
NpMin(xs) ==
    IF Len(xs) = 1 THEN xs[1]
    ELSE LET a == xs[1]
             b == NpMin(Tail(xs))
         IN  IF IsNaN(a) \/ IsNaN(b) THEN NaN ELSE IF FLeq(a, b) THEN a ELSE b

\* line 36
Peak(balances) == Accumulate(balances)

\* lines 35-38
Drawdowns(tr, ib) ==
    LET balances == <<ib>> \o BalancesOf(tr)
        peak == Peak(balances)
    IN  [j \in 1..Len(balances) |-> FDiv(FSub(balances[j], peak[j]), peak[j])]

\* lines 30-38
max_drawdown(tr, ib) ==
    IF "balance_after" \in tr.columns THEN Returned(NpMin(Drawdowns(tr, ib)))
    ELSE KeyError

\* lines 40-46
win_rate(tr) ==
    IF Len(tr.rows) = 0 THEN Returned(NaN)
    ELSE IF "pnl" \notin tr.columns THEN KeyError
    ELSE Returned(Rat(Cardinality({j \in 1..Len(tr.rows) :
                                      FGt(tr.rows[j].pnl, Zero)}),
                      Len(tr.rows)))

\* lines 48-53
expectancy(tr, ib) ==
    LET returns == compute_trade_returns(tr, ib)
    IN  IF returns.status # "ok" THEN KeyError
        ELSE IF Len(returns.value) > 0 THEN Returned(SeriesMean(returns.value))
        ELSE Returned(NaN)

\* lines 55-71
summary(tr, ib) ==
    LET returns == compute_trade_returns(tr, ib)
    IN  IF returns.status # "ok" \/ win_rate(tr).status # "ok"
           \/ expectancy(tr, ib).status # "ok" \/ max_drawdown(tr, ib).status # "ok"
        THEN [status |-> "KeyError", value |-> <<>>]
        ELSE [status |-> "ok",
              value |-> [total_trades |-> Len(tr.rows),
                         win_rate     |-> win_rate(tr).value,
                         expectancy   |-> expectancy(tr, ib).value,
                         sharpe_ratio |-> sharpe_ratio(returns.value, TRUE),
                         max_drawdown |-> max_drawdown(tr, ib).value]]

\* the pnl a closed trade can carry; the non-finite ones are what run() books
\* for an entry bar with atr = 0
TradePnls == {Rat(-1, 2), Zero, Rat(1, 2), PosInf, NaN}

\* the log of trades with the given pnl, starting from balance bal
RECURSIVE LogOf(_, _)
LogOf(pnls, bal) ==
    IF pnls = <<>> THEN <<>>
    ELSE <<[pnl |-> Head(pnls), balance_after |-> BalanceAfter(bal, Head(pnls))]>>
             \o LogOf(Tail(pnls), BalanceAfter(bal, Head(pnls)))

TradeLogs ==
    {LogOf(pnls, initial_balance) :
        pnls \in UNION {[1..n -> TradePnls] : n \in 0..MaxTrades}}

Frames == {DataFrame(log) : log \in TradeLogs} \cup {EmptyFrame}

NoMetric == [op |-> "none", status |-> "none", value |-> <<>>]

MetIdle ==
    /\ trades = EmptyFrame
    /\ metric = NoMetric

MetInit ==
    /\ trades \in Frames
    /\ metric = NoMetric

Outcome(op, r) == [op |-> op, status |-> r.status, value |-> r.value]

CallComputeTradeReturns ==
    /\ metric' = Outcome("compute_trade_returns",
                         compute_trade_returns(trades, initial_balance))
    /\ UNCHANGED trades
    /\ UNCHANGED not_met_vars

\* sharpe_ratio takes the returns series, so it is called on a frame
\* compute_trade_returns accepted
CallSharpeRatio ==
    /\ compute_trade_returns(trades, initial_balance).status = "ok"
    /\ metric' = Outcome("sharpe_ratio",
                         Returned(sharpe_ratio(TradeReturns(trades, initial_balance),
                                               TRUE)))
    /\ UNCHANGED trades
    /\ UNCHANGED not_met_vars

CallMaxDrawdown ==
    /\ metric' = Outcome("max_drawdown", max_drawdown(trades, initial_balance))
    /\ UNCHANGED trades
    /\ UNCHANGED not_met_vars

CallWinRate ==
    /\ metric' = Outcome("win_rate", win_rate(trades))
    /\ UNCHANGED trades
    /\ UNCHANGED not_met_vars

CallExpectancy ==
    /\ metric' = Outcome("expectancy", expectancy(trades, initial_balance))
    /\ UNCHANGED trades
    /\ UNCHANGED not_met_vars

CallSummary ==
    /\ metric' = Outcome("summary", summary(trades, initial_balance))
    /\ UNCHANGED trades
    /\ UNCHANGED not_met_vars

(* ------------------------------------------------------------------ *)
(* Risk sizing (live/risk.py, config.py)                               *)
(* ------------------------------------------------------------------ *)
MaxCalls == 2

\* config.py lines 34-38: (equity_upper_bound, risk_fraction)
RISK_THRESHOLDS ==
    << [bound |-> Rat(1000, 1), frac |-> Rat(2, 100)],
       [bound |-> Rat(5000, 1), frac |-> Rat(15, 1000)],
       [bound |-> PosInf, frac |-> Rat(1, 100)] >>

\* mutant: the upper bound of a tier is taken as inclusive
BelowBound_Inclusive(bal, upper) == FLeq(bal, upper)

\* risk.py line 12
BelowBound(bal, upper) == FLt(bal, upper)

\* risk.py lines 11-15: the first tier whose bound exceeds the balance, else
\* the last tier
get_risk_frac(bal) ==
    LET hits == {t \in 1..Len(RISK_THRESHOLDS) :
                    BelowBound(bal, RISK_THRESHOLDS[t].bound)}
    IN  IF hits # {}
        THEN RISK_THRESHOLDS[CHOOSE t \in hits : \A u \in hits : t <= u].frac
        ELSE RISK_THRESHOLDS[Len(RISK_THRESHOLDS)].frac

\* risk.py line 79
SizingStopDist(atr) == FMul(Rat(12, 10), atr)

\* risk.py lines 75-92; no exchange bracket is passed
compute_position_size(bal, entry_price, atr, min_notional) ==
    LET risk_frac == get_risk_frac(bal)
        stop_dist == SizingStopDist(atr)
        r == choose_leverage(bal, risk_frac, stop_dist, min_notional,
                             [present |-> FALSE, maxLeverage |-> 0])
    IN  IF r.status # "ok"
        THEN [status |-> r.status, lev |-> 0, qty_usd |-> Zero, qty_base |-> Zero]
        ELSE [status |-> "ok", lev |-> r.lev, qty_usd |-> r.qty_usd,
              qty_base |-> FDiv(r.qty_usd, entry_price)]

\* argument values of the modelled calls
AccountBalances ==
    {Rat(-1, 1), Zero, Rat(999, 1), Rat(1000, 1), Rat(4999, 1), Rat(5000, 1),
     Rat(10000, 1)}
EntryPrices == {Rat(100, 1), Rat(1048, 10)}
SizingAtrs == {Zero, Rat(2, 1)}
SizingMinNotionals == {Rat(5, 1), Rat(50, 1)}

NoSizing ==
    [balance |-> Zero, entry_price |-> Zero, atr |-> Zero, min_notional |-> Zero,
     status |-> "none", lev |-> 0, qty_usd |-> Zero, qty_base |-> Zero]

RiskInit ==
    /\ risk_log = <<>>
    /\ sized = NoSizing

\* get_risk_frac, risk.py lines 6-15
GetRiskFrac ==
    /\ Len(risk_log) < MaxCalls
    /\ \E bal \in AccountBalances :
          risk_log' = Append(risk_log, [balance |-> bal, status |-> "ok",
                                        frac |-> get_risk_frac(bal)])
    /\ UNCHANGED sized
    /\ UNCHANGED not_risk_vars

\* compute_position_size, risk.py lines 46-92
ComputePositionSize ==
    /\ \E bal \in AccountBalances, entry_price \in EntryPrices,
          atr \in SizingAtrs, min_notional \in SizingMinNotionals :
          LET r == compute_position_size(bal, entry_price, atr, min_notional)
          IN  sized' = [balance |-> bal, entry_price |-> entry_price,
                        atr |-> atr, min_notional |-> min_notional,
                        status |-> r.status, lev |-> r.lev,
                        qty_usd |-> r.qty_usd, qty_base |-> r.qty_base]
    /\ UNCHANGED risk_log
    /\ UNCHANGED not_risk_vars

(* ------------------------------------------------------------------ *)
(* Scheduler (core/scheduler.py) driving strategy_tick (live/trader.py) *)
(* ------------------------------------------------------------------ *)
MaxFires == 4

\* scheduler.py line 27
max_instances == 1
\* scheduler.py line 21
max_workers == 5

\* the phases of strategy_tick, trader.py lines 64-131
TickPhases == <<"balance", "sentiment", "select", "orders", "retrain">>

NextPhase(ph) ==
    LET j == CHOOSE a \in 1..Len(TickPhases) : TickPhases[a] = ph
    IN  TickPhases[j + 1]

\* mutant: the job is added without the limit of job_defaults
MayStart_Unlimited(running) == running < max_workers

\* the executor starts a run of the job only below max_instances
\* (job_defaults, scheduler.py lines 25-28 and 41)
MayStart(running) == running < max_instances

SchedIdle ==
    /\ sched = "none"
    /\ job_added = FALSE
    /\ instances = 0
    /\ ticks = <<>>
    /\ fired = 0
    /\ skipped = 0

\* Scheduler.__init__, scheduler.py lines 37-45 (trader.py line 145)
SchedulerStart ==
    /\ sched = "none"
    /\ sched' = "started"
    /\ UNCHANGED <<job_added, instances, ticks, fired, skipped>>
    /\ UNCHANGED not_sched_vars

\* add_interval_job, scheduler.py lines 47-66 (trader.py line 147)
AddIntervalJob ==
    /\ sched = "started"
    /\ ~job_added
    /\ job_added' = TRUE
    /\ UNCHANGED <<sched, instances, ticks, fired, skipped>>
    /\ UNCHANGED not_sched_vars

\* the interval elapses: the scheduler submits a run of the job, which the
\* executor starts unless max_instances runs of it are in progress; coalesce
\* is off, so a firing that starts nothing is dropped
IntervalFires ==
    /\ sched = "started"
    /\ job_added
    /\ fired < MaxFires
    /\ fired' = fired + 1
    /\ IF MayStart(instances)
       THEN /\ instances' = instances + 1
            /\ ticks' = Append(ticks, TickPhases[1])
            /\ UNCHANGED skipped
       ELSE /\ skipped' = skipped + 1
            /\ UNCHANGED <<instances, ticks>>
    /\ UNCHANGED <<sched, job_added>>
    /\ UNCHANGED not_sched_vars

\* a running strategy_tick moves on to its next phase
TickStep ==
    /\ \E j \in 1..Len(ticks) :
          /\ ticks[j] # TickPhases[Len(TickPhases)]
          /\ ticks' = [ticks EXCEPT ![j] = NextPhase(@)]
    /\ UNCHANGED <<sched, job_added, instances, fired, skipped>>
    /\ UNCHANGED not_sched_vars

\* a running strategy_tick returns: after its last phase, or from any phase
\* through the except clause of trader.py lines 133-134
TickReturn ==
    /\ \E j \in 1..Len(ticks) :
          ticks' = SubSeq(ticks, 1, j - 1) \o SubSeq(ticks, j + 1, Len(ticks))
    /\ instances' = instances - 1
    /\ UNCHANGED <<sched, job_added, fired, skipped>>
    /\ UNCHANGED not_sched_vars

\* Scheduler.shutdown, scheduler.py lines 73-76 (trader.py lines 152-154):
\* wait=True lets the running tick finish
Shutdown ==
    /\ sched = "started"
    /\ sched' = "shutdown"
    /\ UNCHANGED <<job_added, instances, ticks, fired, skipped>>
    /\ UNCHANGED not_sched_vars

(* ------------------------------------------------------------------ *)
(* Orders of strategy_tick (live/trader.py, models/policy.py,          *)
(* cqio/binance_client.py)                                             *)
(* ------------------------------------------------------------------ *)
MaxPairs == 3

\* config.py line 9, the default
MAX_POSITION_USDT == Rat(50, 1)

\* binance.enums
SIDE_BUY == "BUY"
SIDE_SELL == "SELL"
ORDER_TYPE_MARKET == "MARKET"

\* str.lower on the words a side can be
Lower(word) ==
    CASE word = "BUY" -> "buy"
      [] word = "SELL" -> "sell"
      [] word = "Buy" -> "buy"
      [] word = "Sell" -> "sell"
      [] OTHER -> word

\* Python's min(a, b): b when b < a, else a
PyMin(a, b) == IF FLt(b, a) THEN b ELSE a

\* predict_proba's row <<flat_p, long_p, short_p>>, in percent
Probas == {<<100, 0, 0>>, <<30, 60, 10>>, <<10, 30, 60>>, <<0, 50, 50>>, <<45, 55, 0>>}

\* PolicyModel.decide, policy.py lines 58-72
decide(proba, risk_aversion) ==
    LET long_p == proba[2]
        short_p == proba[3]
    IN  IF Max(long_p, short_p) < 55
        THEN [side |-> "flat", size |-> Zero]
        ELSE [side |-> IF long_p > short_p THEN "long" ELSE "short",
              size |-> PyMin(Rat(Abs(long_p - short_p), 100), risk_aversion)]

\* binance_client.py lines 53-58: the arguments of client.create_order
place_market_order(symbol, side, quantity) ==
    [symbol |-> symbol,
     side |-> IF Lower(side) = "buy" THEN SIDE_BUY ELSE SIDE_SELL,
     type |-> ORDER_TYPE_MARKET,
     quantity |-> quantity]

\* trader.py line 102
EntrySignal(dec) == dec.side # "flat" /\ FGt(dec.size, Zero)

\* what get_account_balance returns: a free balance
TickBalances == {Zero, Rat(1000, 1), Rat(10000, 1)}

\* what selector.choose returns: the static pairs, then the dynamic ones
PairsOfLength(n) == [j \in 1..n |-> IF j = 1 THEN "B" ELSE IF j = 2 THEN "A" ELSE "C"]
TickPairs == {PairsOfLength(n) : n \in 0..MaxPairs}

LiveIdle ==
    /\ tick_pc = "idle"
    /\ tick_balance = Zero
    /\ pairs = <<>>
    /\ tick_decision = NoDecision
    /\ orders = <<>>

\* lines 64-79: the tick has its balance and its pairs
LiveInit ==
    /\ tick_pc = "loop"
    /\ tick_balance \in TickBalances
    /\ pairs \in TickPairs
    /\ tick_decision = NoDecision
    /\ orders = <<>>

\* lines 97-102: the decision for the next symbol
DecideSymbol ==
    /\ tick_pc = "loop"
    /\ pairs # <<>>
    /\ \E proba \in Probas :
          LET dec == decide(proba, get_risk_frac(tick_balance))
          IN  /\ tick_decision' = dec
              /\ IF EntrySignal(dec)
                 THEN tick_pc' = "order" /\ UNCHANGED pairs
                 ELSE tick_pc' = "loop" /\ pairs' = Tail(pairs)
    /\ UNCHANGED <<tick_balance, orders>>
    /\ UNCHANGED not_live_vars

\* lines 103-122: sizing and the market order; an exception of the sizing
\* or of the exchange ends the tick at line 133
PlaceOrder ==
    /\ tick_pc = "order"
    /\ \E price \in EntryPrices, atr \in SizingAtrs, accepted \in BOOLEAN :
          LET ps == compute_position_size(tick_balance, price, atr, MAX_POSITION_USDT)
          IN  IF ps.status = "ok"
              THEN /\ orders' = Append(orders,
                          place_market_order(Head(pairs), tick_decision.side,
                                             ps.qty_base))
                   /\ IF accepted
                      THEN tick_pc' = "loop" /\ pairs' = Tail(pairs)
                      ELSE tick_pc' = "except" /\ UNCHANGED pairs
              ELSE /\ tick_pc' = "except"
                   /\ UNCHANGED <<orders, pairs>>
    /\ UNCHANGED <<tick_balance, tick_decision>>
    /\ UNCHANGED not_live_vars

\* the symbol loop is exhausted
PairsDone ==
    /\ tick_pc = "loop"
    /\ pairs = <<>>
    /\ tick_pc' = "done"
    /\ UNCHANGED <<tick_balance, pairs, tick_decision, orders>>
    /\ UNCHANGED not_live_vars

(* ------------------------------------------------------------------ *)
(* Specifications                                                      *)
(* ------------------------------------------------------------------ *)
BTIdle ==
    /\ bars = <<>>
    /\ pc = "idle"
    /\ i = 0
    /\ balance = initial_balance
    /\ position = NoPosition
    /\ trade_log = <<>>
    /\ decision = NoDecision
    /\ qty = Zero /\ sl = Zero /\ tp = Zero
    /\ bound = {}
    /\ opened = 0
    /\ decided = 0
    /\ returned = NoReturn
    /\ run_no = 1
    /\ decs = <<>>
    /\ first = NoFirst

\* VectorBacktester.run on every bar sequence of at most MaxBars bars
Init == BTInit /\ LevIdle /\ UCBIdle /\ MetIdle /\ RiskInit /\ SchedIdle /\ LiveIdle

Next == LoopStep \/ LoopExit \/ AssignPosition \/ FinalClose \/ Return

Spec == Init /\ [][Next]_vars

\* one call of choose_leverage on each argument tuple
InitLev == BTIdle /\ LevInit /\ UCBIdle /\ MetIdle /\ RiskInit /\ SchedIdle /\ LiveIdle

NextLev == CallChooseLeverage

SpecLev == InitLev /\ [][NextLev]_vars

\* run() called twice on the same frame with the same policy
NextTwice == LoopStep \/ LoopExit \/ AssignPosition \/ FinalClose \/ Return \/ Rerun

SpecTwice == Init /\ [][NextTwice]_vars

\* a DynamicUCBSelector under any interleaving of update_reward and choose
InitUCB == BTIdle /\ LevIdle /\ UCBInit /\ MetIdle /\ RiskInit /\ SchedIdle /\ LiveIdle

NextUCB == UpdateReward \/ Choose

SpecUCB == InitUCB /\ [][NextUCB]_vars

\* the metrics called, in any order, on a trade-log frame
InitMet == BTIdle /\ LevIdle /\ UCBIdle /\ MetInit /\ RiskInit /\ SchedIdle /\ LiveIdle

NextMet ==
    \/ CallComputeTradeReturns
    \/ CallSharpeRatio
    \/ CallMaxDrawdown
    \/ CallWinRate
    \/ CallExpectancy
    \/ CallSummary

SpecMet == InitMet /\ [][NextMet]_vars

\* the sizing functions of live/risk.py called in any order
InitRisk == BTIdle /\ LevIdle /\ UCBIdle /\ MetIdle /\ RiskInit /\ SchedIdle /\ LiveIdle

NextRisk == GetRiskFrac \/ ComputePositionSize

SpecRisk == InitRisk /\ [][NextRisk]_vars

\* main_loop: the scheduler is started, the job added, and the interval
\* trigger fires at any moment, also while a tick is running
InitSched == BTIdle /\ LevIdle /\ UCBIdle /\ MetIdle /\ RiskInit /\ SchedIdle /\ LiveIdle

NextSched ==
    \/ SchedulerStart
    \/ AddIntervalJob
    \/ IntervalFires
    \/ TickStep
    \/ TickReturn
    \/ Shutdown

SpecSched == InitSched /\ [][NextSched]_vars

\* the symbol loop of one strategy_tick
InitLive == BTIdle /\ LevIdle /\ UCBIdle /\ MetIdle /\ RiskInit /\ SchedIdle /\ LiveInit

NextLive == DecideSymbol \/ PlaceOrder \/ PairsDone

SpecLive == InitLive /\ [][NextLive]_vars

(* ------------------------------------------------------------------ *)
(* Properties of VectorBacktester.run                                  *)
(* ------------------------------------------------------------------ *)
RECURSIVE SumPnl(_)
SumPnl(log) ==
    IF log = <<>> THEN Zero
    ELSE FAdd(SumPnl(SubSeq(log, 1, Len(log) - 1)), log[Len(log)].pnl)

Last(log) == log[Len(log)]

\* number of Positions created and not yet closed
OpenCount == opened - Len(trade_log)

\* C1: when run() returns, the final balance equals initial_balance plus
\* the sum of the pnl of all records of the returned trade log.
C1_FinalBalance ==
    pc = "done" =>
        returned.final_balance = FAdd(initial_balance, SumPnl(returned.trades))

C1_Witness ==
    /\ pc = "done"
    /\ Len(returned.trades) >= 1
    /\ IsFinite(returned.final_balance)
    /\ returned.final_balance # initial_balance

\* C2: at every step at most one Position is open; a Position is never
\* created while another one has not been closed.
C2_AtMostOneOpen == OpenCount \in {0, 1}

C2_Witness == opened = 1 /\ trade_log = <<>> /\ position.side \in {"long", "short"}

\* C3: a long Position whose next bar closes <= its stop is closed on that
\* bar at the stop price, else at the take price when the close is >= take;
\* mirrored for a short Position.
C3_ExitAtStopOrTake ==
    [][ (/\ position.side \in {"long", "short"}
         /\ pc \in {"loop", "final"}
         /\ (i' # i \/ pc' # pc)
         /\ pc' # "assign")
        => LET price_next == IF pc = "loop" THEN Row(i + 1).c
                             ELSE Row(Len(bars) - 1).c
               ex == StopTakeExit(position, price_next)
           IN  ex.hit => /\ Len(trade_log') = Len(trade_log) + 1
                         /\ Last(trade_log').exit_price = ex.price
                         /\ Last(trade_log').pnl = Pnl(position, ex.price) ]_vars

\* C4: when run() returns every Position that was opened has exactly one
\* Trade record, and a Position still open after the last bar was closed
\* at the final bar's close.
C4_NoDanglingPosition ==
    pc = "done" =>
        /\ Len(returned.trades) = opened
        /\ position # NoPosition =>
              /\ returned.trades # <<>>
              /\ Last(returned.trades).exit_price = Row(Len(bars) - 1).c
              /\ Last(returned.trades).exit_time = Len(bars) - 1
              /\ Last(returned.trades).entry_time = position.entry_idx
              /\ Last(returned.trades).entry_price = position.entry_price
              /\ Last(returned.trades).qty = position.qty

C4_Witness ==
    /\ pc = "done"
    /\ opened = 1
    /\ position.side = "long"
    /\ FLt(Row(Len(bars) - 1).c, position.sl)
    /\ Last(returned.trades).exit_price = Row(Len(bars) - 1).c

\* C5: a flat or zero-size decision creates no Position: every Trade has
\* side long or short and quantity > 0, and a run whose decisions are all
\* flat returns an empty log and the initial balance.
C5_FlatStaysFlat ==
    /\ \A n \in 1..Len(trade_log) :
          /\ trade_log[n].side \in {"long", "short"}
          /\ FGt(trade_log[n].qty, Zero)
    /\ (pc \in {"done", "fault"} /\ decided > 0 /\ "qty" \notin bound) =>
          /\ pc = "done"
          /\ returned.trades = <<>>
          /\ returned.final_balance = initial_balance

\* C6: run() completes without raising for every well-formed bar sequence,
\* including zero or one bar.
C6_NoFault == pc # "fault"

\* C7: each record's balance_after is the previous record's balance_after
\* (initial_balance for the first) plus its pnl, and the log is append-only.
BalanceChain(log) ==
    \A n \in 1..Len(log) :
        log[n].balance_after =
            FAdd(IF n = 1 THEN initial_balance ELSE log[n - 1].balance_after,
                 log[n].pnl)

C7_BalanceChain ==
    /\ BalanceChain(trade_log)
    /\ [][ /\ BalanceChain(trade_log')
           /\ Len(trade_log') >= Len(trade_log)
           /\ SubSeq(trade_log', 1, Len(trade_log)) = trade_log ]_vars

C7_Witness ==
    /\ pc = "done"
    /\ Len(returned.trades) = 1
    /\ IsFinite(returned.trades[1].pnl)
    /\ returned.trades[1].pnl # Zero
    /\ returned.trades[1].balance_after = FAdd(initial_balance, returned.trades[1].pnl)

(* ------------------------------------------------------------------ *)
(* Properties of choose_leverage                                       *)
(* ------------------------------------------------------------------ *)
\* the documented cap of the tier containing a balance >= 0
DocumentedCap(bal) ==
    IF FLt(bal, Rat(200, 1)) THEN 5
    ELSE IF FLt(bal, Rat(2000, 1)) THEN 25
    ELSE 10

\* C8: for every balance >= 0 the call returns an integer leverage with
\* 1 <= leverage <= the cap of the balance's tier (5, 25, 10), and
\* leverage <= maxLeverage when an exchange bracket is supplied.
C8_LeverageBounds ==
    (lev_ret.status # "none" /\ FGeq(lev_args.balance, Zero)) =>
        /\ lev_ret.status = "ok"
        /\ lev_ret.lev \in Int
        /\ 1 <= lev_ret.lev
        /\ lev_ret.lev <= DocumentedCap(lev_args.balance)
        /\ lev_args.exchange_bracket.present =>
              lev_ret.lev <= lev_args.exchange_bracket.maxLeverage

C8_Witness ==
    /\ lev_ret.status = "ok"
    /\ lev_args.balance = Rat(1000, 1)
    /\ lev_args.exchange_bracket.present
    /\ lev_args.exchange_bracket.maxLeverage = 20
    /\ Round(LevNeeded(FMul(lev_args.balance, lev_args.risk_frac),
                       lev_args.stop_usd, lev_args.min_notional)) > 25
    /\ lev_ret.lev = 20

InSeq(x, seq) == \E j \in 1..Len(seq) : seq[j] = x

\* C10: choose never puts a sampled arm in its dynamic top-k while leaving
\* out an unsampled arm of the universe, and every unsampled arm it takes
\* comes before every sampled one.
C10_UnsampledFirst ==
    chosen.status = "ok" =>
        /\ \A p, q \in Symbols :
              (/\ InSeq(p, chosen.topk)
               /\ stats[p].N > 0
               /\ InSeq(q, chosen.universe)
               /\ stats[q].N = 0) => InSeq(q, chosen.topk)
        /\ \A a, b \in 1..Len(chosen.topk) :
              (stats[chosen.topk[a]].N > 0 /\ stats[chosen.topk[b]].N = 0) => b < a

\* the score choose gave symbol p (update_reward clears chosen, so stats and
\* N_total are those of the call)
ScoreOf(p) == Score(stats, N_total, p)

\* C11: choose returns the static symbols in their given order followed by
\* the k highest-scoring universe symbols in descending score order, with no
\* deduplication between the two parts.
C11_StaticThenTopK ==
    chosen.status = "ok" =>
        /\ chosen.result = static \o chosen.topk
        /\ Len(chosen.universe) >= k => Len(chosen.topk) = k
        /\ \A a \in 1..Len(chosen.topk) : InSeq(chosen.topk[a], chosen.universe)
        /\ \A a, b \in 1..Len(chosen.topk) :
              a < b => /\ chosen.topk[a] # chosen.topk[b]
                       /\ FGeq(ScoreOf(chosen.topk[a]), ScoreOf(chosen.topk[b]))
        /\ \A a \in 1..Len(chosen.topk), b \in 1..Len(chosen.universe) :
              ~InSeq(chosen.universe[b], chosen.topk) =>
                  FGeq(ScoreOf(chosen.topk[a]), ScoreOf(chosen.universe[b]))

\* C12: whenever the universe has fewer than k members, choose fails with a
\* fault instead of returning a selection.
C12_ShortUniverseFaults ==
    (chosen.status # "none" /\ Len(chosen.universe) < k) =>
        chosen.status = "ValueError"

(* ------------------------------------------------------------------ *)
(* Properties of PerformanceMetrics                                    *)
(* ------------------------------------------------------------------ *)
\* the equity curve: initial_balance, then each balance_after
Equity == <<initial_balance>> \o BalancesOf(trades)

\* the highest balance among the first j of the curve
RunningPeak(j) ==
    CHOOSE x \in {Equity[a] : a \in 1..j} : \A a \in 1..j : FGeq(x, Equity[a])

DrawdownAt(j) == FDiv(FSub(Equity[j], RunningPeak(j)), RunningPeak(j))

NonDecreasing(xs) == \A a \in 1..(Len(xs) - 1) : FLeq(xs[a], xs[a + 1])

\* C13: max_drawdown is the minimum of (balance - running peak)/peak over
\* (initial_balance, balance_after[0..n-1]); it is <= 0, and exactly 0 when
\* that sequence is non-decreasing, the empty trade log included.
C13_MaxDrawdown ==
    metric.op = "max_drawdown" =>
        /\ metric.status = "ok"
        /\ FLeq(metric.value, Zero)
        /\ \E j \in 1..Len(Equity) : metric.value = DrawdownAt(j)
        /\ \A j \in 1..Len(Equity) : FLeq(metric.value, DrawdownAt(j))
        /\ NonDecreasing(Equity) => metric.value = Zero

\* C14: on an empty trade log every metrics operation returns without
\* raising; total_trades is 0 and win_rate, expectancy and sharpe are nan.
C14_EmptyLogNoFault ==
    (trades.rows = <<>> /\ metric.op # "none") =>
        /\ metric.status = "ok"
        /\ metric.op \in {"win_rate", "expectancy", "sharpe_ratio"} =>
              IsNaN(metric.value)
        /\ metric.op = "summary" =>
              /\ metric.value.total_trades = 0
              /\ IsNaN(metric.value.win_rate)
              /\ IsNaN(metric.value.expectancy)
              /\ IsNaN(metric.value.sharpe_ratio)

(* ------------------------------------------------------------------ *)
(* Properties of the risk sizing                                       *)
(* ------------------------------------------------------------------ *)
\* the fraction the default table documents for a balance >= 0
DocumentedFrac(bal) ==
    IF FLt(bal, Rat(1000, 1)) THEN Rat(2, 100)
    ELSE IF FLt(bal, Rat(5000, 1)) THEN Rat(15, 1000)
    ELSE Rat(1, 100)

\* C15: get_risk_frac returns the fraction of the first tier whose upper
\* bound is strictly greater than the balance (0.02 below 1000, 0.015 from
\* 1000 to below 5000, 0.01 from 5000); it is defined for every balance >= 0
\* and never increases as the balance rises.
C15_RiskFraction ==
    /\ \A a \in 1..Len(risk_log) :
          FGeq(risk_log[a].balance, Zero) =>
              /\ risk_log[a].status = "ok"
              /\ risk_log[a].frac = DocumentedFrac(risk_log[a].balance)
    /\ \A a, b \in 1..Len(risk_log) :
          (/\ FGeq(risk_log[a].balance, Zero)
           /\ FLeq(risk_log[a].balance, risk_log[b].balance)) =>
              FGeq(risk_log[a].frac, risk_log[b].frac)

C15_Witness ==
    /\ Len(risk_log) = 2
    /\ risk_log[1].balance = Rat(1000, 1)
    /\ risk_log[1].frac = Rat(15, 1000)
    /\ risk_log[2].balance = Rat(999, 1)
    /\ risk_log[2].frac = Rat(2, 100)

\* C16: a balance outside every configured tier (any negative balance, for
\* the default tables) makes both get_risk_frac and the tier selection of
\* choose_leverage fail rather than return a value.
C16_TierMissFaults ==
    /\ \A a \in 1..Len(risk_log) :
          FLt(risk_log[a].balance, Zero) => risk_log[a].status # "ok"
    /\ (sized.status # "none" /\ FLt(sized.balance, Zero)) => sized.status # "ok"

(* ------------------------------------------------------------------ *)
(* Properties of the scheduler                                         *)
(* ------------------------------------------------------------------ *)
\* C17: at any time at most one invocation of strategy_tick is executing; a
\* trigger that fires while a tick is running starts no second tick.
C17_NoOverlappingTicks ==
    /\ Len(ticks) <= 1
    /\ Len(ticks) = instances
    /\ [][(Len(ticks) = 1 /\ fired' = fired + 1) =>
              (ticks' = ticks /\ skipped' = skipped + 1)]_vars

C17_Witness ==
    /\ Len(ticks) = 1
    /\ ticks[1] = "orders"
    /\ skipped >= 1

(* ------------------------------------------------------------------ *)
(* Further properties of VectorBacktester.run and choose_leverage      *)
(* ------------------------------------------------------------------ *)
\* C18: when the stop distance at a would-be entry bar is <= 0 (ATR <= 0),
\* run() opens no position and never divides by that stop distance: no
\* quantity it computes or logs is the inf or nan of a division by zero.
C18_ZeroStopOpensNothing ==
    /\ "qty" \in bound => IsFinite(qty)
    /\ position # NoPosition => IsFinite(position.qty)
    /\ \A j \in 1..Len(trade_log) : IsFinite(trade_log[j].qty)

\* C19: choose_leverage with a stop distance <= 0 and a balance inside a
\* tier returns notional 0 with a leverage inside the tier bounds and raises
\* nothing; a target risk of 0 raises no division fault either.
C19_NonPositiveStop ==
    (lev_ret.status # "none" /\ MatchingTiers(lev_args.balance) # {}) =>
        /\ FLeq(lev_args.stop_usd, Zero) =>
              /\ lev_ret.status = "ok"
              /\ lev_ret.qty_usd = Zero
              /\ lev_ret.lev >= 1
              /\ \E t \in MatchingTiers(lev_args.balance) :
                    lev_ret.lev <= TIERS[t].max_leverage
        /\ FMul(lev_args.balance, lev_args.risk_frac) = Zero =>
              lev_ret.status = "ok"

C19_Witness ==
    /\ lev_ret.status = "ok"
    /\ lev_args.balance = Rat(1000, 1)
    /\ lev_args.risk_frac = Zero
    /\ lev_args.stop_usd = Zero
    /\ lev_args.min_notional = Rat(5, 1)
    /\ lev_ret.lev = 1
    /\ lev_ret.qty_usd = Zero

\* two calls of run() on the same bars with the same decisions end alike
SameOutcome ==
    (run_no = 2 /\ pc \in {"done", "fault"}) =>
        /\ pc = first.pc
        /\ decs = first.decs
        /\ returned = first.returned

\* the position run() builds comes from the decision and the bar it is
\* entered on, not from what an earlier bar left behind
NothingElseCarried ==
    (pc = "final" /\ position # NoPosition) =>
        LET row == Row(position.entry_idx)
        IN  /\ decision.side # "flat"
            /\ position.qty = EntryQty(balance, decision, row)
            /\ position.sl = EntrySl(decision, row)
            /\ position.tp = EntryTp(decision, row)

\* C20: two runs on the same bar sequence, parameters and decision function
\* produce identical trade logs and final balances, and the only state
\* carried between bars is the open Position and the running balance.
C20_Deterministic == SameOutcome /\ NothingElseCarried

\* ---------------------------------------------------------------------
\* Entries, decisions and the balance inside the loop

\* the decision opens a trade: long or short with a positive size
IsEntry(dec) == dec.side \in {"long", "short"} /\ FGt(dec.size, Zero)

\* C21: when the simulator is Flat at bar i and the decision for bar i is
\* long or short with size > 0, a Position is opened at bar i with entry
\* price close[i], stop and take at sl_atr and tp_atr times ATR[i] from the
\* close (mirrored for short) and quantity balance * size / stop distance.
C21_EntryOpensPosition ==
    [][ (/\ pc = "loop" /\ i' = i + 1
         /\ position = NoPosition
         /\ decided' = decided + 1
         /\ IsEntry(decision'))
        => position' =
             [side |-> decision'.side,
              entry_price |-> Row(i).c,
              qty |-> FDiv(FMul(balance, decision'.size), FMul(sl_atr, Row(i).atr)),
              sl |-> IF decision'.side = "long"
                     THEN FSub(Row(i).c, FMul(sl_atr, Row(i).atr))
                     ELSE FAdd(Row(i).c, FMul(sl_atr, Row(i).atr)),
              tp |-> IF decision'.side = "long"
                     THEN FAdd(Row(i).c, FMul(tp_atr, Row(i).atr))
                     ELSE FSub(Row(i).c, FMul(tp_atr, Row(i).atr)),
              entry_idx |-> i] ]_vars

\* A Position is open at bar i: the program holds one, or the decision of
\* the bar before was an entry (every bar so far was decided, so decision is
\* that of bar i - 1), which by the entry rule opened one at that bar.
OpenAtBar ==
    \/ position # NoPosition
    \/ (i >= 1 /\ decided = i /\ IsEntry(decision))

\* C22: the decision function is invoked exactly once on each bar at which
\* the simulator is Flat and never on a bar at which a Position is open;
\* while a Position is open and neither its stop nor its take condition
\* holds, the Position stays open unchanged and no new entry is made.
C22_DecideOnlyWhenFlat ==
    [][ (pc = "loop" /\ i' = i + 1)
        => /\ ~OpenAtBar => decided' = decided + 1
           /\ OpenAtBar => decided' = decided
           /\ (position # NoPosition /\ ~StopTakeExit(position, Row(i + 1).c).hit)
                 => position' = position /\ opened' = opened ]_vars

\* what the program's own variable supports: decide is invoked exactly once
\* on every bar of the loop, and no bar of the loop holds a Position
C22_DecideOnEveryBar ==
    /\ pc = "loop" => position = NoPosition
    /\ pc \in {"loop", "assign"} => decided = i /\ Len(decs) = i

\* (exit_price - entry_price) * quantity * (+1 long, -1 short) of a record
RealizedPnl(t) ==
    FMul(FMul(FSub(t.exit_price, t.entry_price), t.qty),
         IF t.side = "long" THEN One ELSE FNeg(One))

\* C23: the running balance changes only in a step that closes a Position,
\* and then by exactly that trade's realized pnl; steps that open a Position,
\* keep one open or stay Flat leave the balance and the trade log unchanged.
C23_BalanceFrame ==
    [][ /\ (balance' # balance \/ trade_log' # trade_log)
            => /\ position # NoPosition
               /\ Len(trade_log') = Len(trade_log) + 1
               /\ SubSeq(trade_log', 1, Len(trade_log)) = trade_log
               /\ LET t == Last(trade_log')
                  IN  /\ t.side = position.side
                      /\ t.entry_price = position.entry_price
                      /\ t.qty = position.qty
                      /\ t.side \in {"long", "short"} => t.pnl = RealizedPnl(t)
                      /\ balance' = FAdd(balance, t.pnl)
        /\ (opened' # opened \/ position' # position \/ decided' # decided)
            => UNCHANGED <<balance, trade_log>> ]_vars

C23_Witness ==
    /\ pc = "done"
    /\ Len(trade_log) = 1
    /\ trade_log[1].side = "short"
    /\ IsFinite(trade_log[1].pnl)
    /\ FGt(trade_log[1].pnl, Zero)
    /\ balance = FAdd(initial_balance, trade_log[1].pnl)
    /\ decided = 2

\* ---------------------------------------------------------------------
\* The selector's counters

\* the arm's values, those of a fresh arm when the selector has none for p
ArmOf(st, p) == IF p \in DOMAIN st THEN st[p] ELSE [N |-> 0, reward |-> Zero]

\* C24: update_reward(symbol, reward) increases that symbol's sample count
\* by exactly 1, its cumulative reward by reward and total_samples by exactly
\* 1, creating the arm if absent and leaving every other arm unchanged;
\* counts and total_samples never decrease and no arm is ever removed.
C24_UpdateReward ==
    [][ /\ N_total' >= N_total
        /\ DOMAIN stats \subseteq DOMAIN stats'
        /\ \A p \in DOMAIN stats : stats'[p].N >= stats[p].N
        /\ (N_total' # N_total
               \/ \E p \in DOMAIN stats' : stats'[p] # ArmOf(stats, p))
            => \E pair \in Symbols, reward \in Rewards :
                  /\ N_total' = N_total + 1
                  /\ DOMAIN stats' = DOMAIN stats \cup {pair}
                  /\ stats'[pair].N = ArmOf(stats, pair).N + 1
                  /\ stats'[pair].reward = FAdd(ArmOf(stats, pair).reward, reward)
                  /\ \A p \in DOMAIN stats \ {pair} : stats'[p] = stats[p] ]_vars

\* an arm created by its first reward next to an arm rewarded twice
C24_Witness ==
    /\ N_total = 3
    /\ DOMAIN stats = {"A", "B"}
    /\ stats["A"] = [N |-> 2, reward |-> Rat(1, 1)]
    /\ stats["B"] = [N |-> 1, reward |-> Rat(2, 1)]

\* the sum of N over the arms in ps
RECURSIVE SumN(_, _)
SumN(st, ps) ==
    IF ps = {} THEN 0
    ELSE LET p == CHOOSE q \in ps : TRUE
         IN  st[p].N + SumN(st, ps \ {p})

\* C26: after any sequence of update_reward and choose calls N_total equals
\* the sum of N over all arms, so every arm with N > 0 has
\* N_total >= N >= 1 and the bonus sqrt(2 * ln(N_total) / N) is defined:
\* no logarithm of 0 and no negative radicand.
C26_TotalIsSum ==
    /\ N_total = SumN(stats, DOMAIN stats)
    /\ \A p \in DOMAIN stats :
          stats[p].N > 0 =>
             /\ N_total >= stats[p].N
             /\ stats[p].N >= 1
             /\ N_total \in DOMAIN LnMilliTable
             /\ 20 * LnMilliTable[N_total] >= 0

C26_Witness ==
    /\ chosen.status = "ok"
    /\ N_total = 3
    /\ DOMAIN stats = {"A", "B", "C"}
    /\ stats["A"].N = 2 /\ stats["B"].N = 1 /\ stats["C"].N = 0

\* C27: choose leaves N_total and the (N, reward) values of every existing
\* arm unchanged; the only state it may add is zero-valued arm entries for
\* universe symbols not seen before, so calling choose never changes a
\* later selection's scores.
C27_ChooseFrame ==
    [][ chosen'.status # "none"
        => /\ N_total' = N_total
           /\ \A p \in DOMAIN stats : p \in DOMAIN stats' /\ stats'[p] = stats[p]
           /\ \A p \in DOMAIN stats' \ DOMAIN stats :
                 /\ stats'[p] = [N |-> 0, reward |-> Zero]
                 /\ InSeq(p, chosen'.universe)
           /\ \A p \in Symbols :
                 Score(Touch(stats', p), N_total', p)
                    = Score(Touch(stats, p), N_total, p) ]_vars

C27_Witness ==
    /\ chosen.status = "ok"
    /\ chosen.universe = <<"A", "C">>
    /\ N_total = 2
    /\ DOMAIN stats = {"A", "C"}
    /\ stats["A"].N = 2 /\ stats["C"] = [N |-> 0, reward |-> Zero]

\* ---------------------------------------------------------------------
\* Leverage and the minimum notional

\* the leverage line 53 chooses when no cap applies
UncappedLeverage ==
    Max(1, Round(LevNeeded(FMul(lev_args.balance, lev_args.risk_frac),
                           lev_args.stop_usd, lev_args.min_notional)))

\* C25: whenever target risk > 0, stop distance > 0 and the chosen leverage
\* is not reduced by the tier cap or the exchange cap, the returned
\* notional_usd is at least min_notional.
C25_MeetsMinNotional ==
    (/\ lev_ret.status = "ok"
     /\ FGt(FMul(lev_args.balance, lev_args.risk_frac), Zero)
     /\ FGt(lev_args.stop_usd, Zero)
     /\ lev_ret.lev = UncappedLeverage)
    => FGeq(lev_ret.qty_usd, lev_args.min_notional)

\* ---------------------------------------------------------------------
\* Orders of the live tick

\* C28: in a live strategy_tick a decision with side long and size > 0
\* submits a BUY market order for that symbol and a decision with side
\* short submits a SELL market order; a flat decision or size 0 submits no
\* order.
C28_OrderMatchesDecision ==
    [][ /\ orders' # orders
            => /\ Len(orders') = Len(orders) + 1
               /\ SubSeq(orders', 1, Len(orders)) = orders
               /\ IsEntry(tick_decision)
               /\ Last(orders').symbol = Head(pairs)
               /\ Last(orders').type = "MARKET"
               /\ Last(orders').side =
                     (IF tick_decision.side = "long" THEN "BUY" ELSE "SELL")
        /\ (tick_pc = "loop" /\ tick_decision' # tick_decision)
            => /\ orders' = orders
               /\ tick_pc' = "order" <=> IsEntry(tick_decision') ]_vars

\* the part that holds: no order without an entry decision, and the order
\* of a short decision is a SELL for the decided symbol
C28_ShortSellsFlatNothing ==
    [][ /\ orders' # orders
            => /\ Len(orders') = Len(orders) + 1
               /\ IsEntry(tick_decision)
               /\ Last(orders').symbol = Head(pairs)
               /\ tick_decision.side = "short" => Last(orders').side = "SELL"
        /\ (tick_pc = "loop" /\ ~IsEntry(tick_decision')) => tick_pc' # "order" ]_vars

====
